---- MODULE Spec2Model ----
(***************************************************************************)
(* A model of mdsm.js (src/mdsm.js) and of its Session class               *)
(* (src/Classes/Session.js): the session collection, the clients of each   *)
(* session, the endpoint registry, the encrypted MDSM cookie, the request   *)
(* router and the self-rescheduling expiry timers.                          *)
(*                                                                          *)
(* JavaScript runs every call and every timer callback to completion on    *)
(* one thread, so each public call, each request and each timer callback   *)
(* is one atomic action.  Time is a discrete clock `now` (Date.now()).     *)
(***************************************************************************)
EXTENDS Integers, Sequences, FiniteSets, TLC

(***************************************************************************)
(* Bounds of the model.                                                     *)
(***************************************************************************)
MaxTime == 2        \* the clock runs from 0 to MaxTime
MaxSessions == 2    \* Session objects ever constructed
MaxClients == 2     \* Client objects ever constructed
MaxRouteTime == 1   \* the clock of SpecRoute runs from 0 to MaxRouteTime
MaxURLLen == 5      \* the longest URL handed to trimURL in SpecTrim

(***************************************************************************)
(* JavaScript values.                                                       *)
(***************************************************************************)
\* The number NaN.  An absent timeToLive is `undefined`, which arithmetic
\* converts to NaN (Date.now() + undefined, src/mdsm.js:271).
NaN == -1000

\* null, for sessionData / clientData (src/mdsm.js:264-266).
Null == <<"null", 0>>

\* The value of a property that an object does not have.
Undefined == <<"undefined", 0>>

IsNum(x) == x # NaN

\* a + b on JavaScript numbers
Plus(a, b) == IF IsNum(a) /\ IsNum(b) THEN a + b ELSE NaN

\* a - b on JavaScript numbers
Minus(a, b) == IF IsNum(a) /\ IsNum(b) THEN a - b ELSE NaN

\* a <= b on JavaScript numbers: false when either is NaN
LessEq(a, b) == IsNum(a) /\ IsNum(b) /\ a <= b

(***************************************************************************)
(* URLs are strings, modelled as sequences of characters.                   *)
(***************************************************************************)
\* trimURL of src/mdsm.js:367-376: removes one leading and one trailing "/".
trimURL(url) ==
    LET t1 == IF Len(url) > 0 /\ url[1] = "/"
              THEN SubSeq(url, 2, Len(url)) ELSE url
    IN  IF Len(t1) > 0 /\ t1[Len(t1)] = "/"
        THEN SubSeq(t1, 1, Len(t1) - 1) ELSE t1

\* Session.trimURL of src/Classes/Session.js:84-93 (the same text).
SessionTrimURL(url) ==
    LET t1 == IF Len(url) > 0 /\ url[1] = "/"
              THEN SubSeq(url, 2, Len(url)) ELSE url
    IN  IF Len(t1) > 0 /\ t1[Len(t1)] = "/"
        THEN SubSeq(t1, 1, Len(t1) - 1) ELSE t1

\* The endpoint list handed to init(): the one of src/test.js:17-34, with the
\* URLs shortened to one path segment.
ConfigTest ==
    << [url |-> <<"/", "a", "/">>, allowedClassTypes |-> {"class_A"},
        handler |-> "doSomething1"],
       [url |-> <<"/", "b", "/">>, allowedClassTypes |-> {"class_B"},
        handler |-> "doSomething2"] >>

\* The request URLs tried: registered ones in two spellings, one with doubled
\* slashes, and one that is not registered.
RequestURLs ==
    { <<"/", "a", "/">>, <<"b">>, <<"/", "/", "a", "/", "/">>,
      <<"/", "c", "/">> }

ClientClasses == {"class_A", "class_B"}

(***************************************************************************)
(* The MDSM cookie.                                                         *)
(***************************************************************************)
\* The secret of this process (src/mdsm.js:25) and the secret of another
\* instance of MDSM, e.g. the one that ran before a restart.
Secret == "secret"
OtherSecret == "previous instance"

\* JSON.stringify of the cookie object (src/Classes/Session.js:23-28).  A JSON
\* text is modelled by its shape and by the two properties the code reads.
Stringify(sessionID, clientID) ==
    [shape |-> "object", sessionID |-> sessionID, clientID |-> clientID]

\* Texts that are not the JSON of a cookie object.
TextNull == [shape |-> "null", sessionID |-> Undefined, clientID |-> Undefined]
TextEmptyObject == [shape |-> "object", sessionID |-> Undefined, clientID |-> Undefined]
TextGarbage == [shape |-> "garbage", sessionID |-> Undefined, clientID |-> Undefined]

\* A ciphertext: the key it was made with and the text it holds.  `intact` is
\* false for a string that is no whole ciphertext (cut or altered so that the
\* final block's padding is wrong).
Ciphertext(key, text, intact) == [key |-> key, text |-> text, intact |-> intact]

\* encrypt of src/mdsm.js:380-385
encrypt(plaintext) == Ciphertext(Secret, plaintext, TRUE)

\* decrypt of src/mdsm.js:389-401: the plaintext, or the error it rethrows.
decrypt(ciphertext) ==
    IF ciphertext.intact /\ ciphertext.key = Secret
    THEN [threw |-> FALSE, value |-> ciphertext.text]
    ELSE [threw |-> TRUE, value |-> TextGarbage]

\* JSON.parse (src/mdsm.js:216): throws on a text that is not JSON.
JSONParse(text) ==
    IF text.shape = "garbage"
    THEN [threw |-> TRUE, value |-> text]
    ELSE [threw |-> FALSE, value |-> text]

\* value.sessionID (src/mdsm.js:221): reading a property of null throws; a
\* number, or an object without the property, gives undefined.
GetSessionID(value) ==
    IF value.shape = "null"
    THEN [threw |-> TRUE, value |-> Undefined]
    ELSE [threw |-> FALSE,
          value |-> IF value.shape = "object" THEN value.sessionID ELSE Undefined]

\* value.clientID (src/Classes/Session.js:46)
GetClientID(value) ==
    IF value.shape = "null"
    THEN [threw |-> TRUE, value |-> Undefined]
    ELSE [threw |-> FALSE,
          value |-> IF value.shape = "object" THEN value.clientID ELSE Undefined]

(***************************************************************************)
(* The state of the module (the closure of mdsm(), src/mdsm.js:12-34) and  *)
(* of the objects it creates.                                               *)
(***************************************************************************)
VARIABLES
    mode,       \* MDSM_CONFIG.mode: "null", "Port" or "Middleware"
    endpoints,  \* the endpoints array of the router
    heap,       \* every Session object ever constructed, by object number;
                \* the embedder keeps the handles createSession returned
    sessions,   \* the sessions array: object numbers, in array order
    timers,     \* the pending setTimeout callbacks: [session, due]
    now,        \* Date.now()
    nclients,   \* Client objects constructed so far (numbers the random IDs)
    last        \* what the last call did: its input and its outcome

vars == <<mode, endpoints, heap, sessions, timers, now, nclients, last>>

\* The first of a set of indices, 0 if there is none: the index of
\* seq.filter(P)[0] in seq, given the indices of the elements that satisfy P
\* (src/mdsm.js:321-323, 342-344; src/Classes/Session.js:45-51).
FirstIndex(indices) ==
    IF indices = {} THEN 0
    ELSE CHOOSE i \in indices : \A j \in indices : i <= j

\* The indices of the sessions array whose session has this sessionID.
SessionsWithID(sessionID) ==
    { i \in 1..Len(sessions) : heap[sessions[i]].sessionID = sessionID }

\* Array.prototype.indexOf, 0-based, -1 when absent (src/mdsm.js:293).
IndexOf(seq, x) ==
    IF \E i \in 1..Len(seq) : seq[i] = x
    THEN (CHOOSE i \in 1..Len(seq) :
            seq[i] = x /\ \A j \in 1..(i - 1) : seq[j] # x) - 1
    ELSE -1

\* seq.splice(start, 1) for a 0-based start; a negative start counts from the
\* end of the array (src/mdsm.js:293).
Splice1(seq, start) ==
    LET from0 == IF start < 0
                 THEN (IF Len(seq) + start < 0 THEN 0 ELSE Len(seq) + start)
                 ELSE (IF start > Len(seq) THEN Len(seq) ELSE start)
    IN  SubSeq(seq, 1, from0) \o SubSeq(seq, from0 + 2, Len(seq))

\* The random hex strings of crypto.randomFillSync: the n-th session ID
\* (src/mdsm.js:255) and the n-th client ID (src/Classes/Session.js:16).
\* 32 random bytes never repeat, so each draw is a new value.
RandomSessionID(n) == <<"sid", n>>
RandomClientID(n) == <<"cid", n>>

\* A session ID the caller supplies itself.
GivenID == <<"given", 1>>

\* An ID that names no session ever created.
UnknownID == <<"given", 2>>

\* No cookie: the `value` of a header that carries none.
NoCookie == Ciphertext("none", TextGarbage, FALSE)

\* What a call wrote to the HTTP response with res.end: nothing, or a text
\* that holds a session ID and a cookie text (src/Classes/Session.js:57).
NoBody == [written |-> FALSE, sessionID |-> Undefined, mdsmCookie |-> TextGarbage]

\* The record of a call that is no request.  `id` and `amount` hold the ID and
\* the number the caller passed, where the call takes one.
Quiet(op, out, obj) ==
    [op |-> op, out |-> out, obj |-> obj, client |-> 0, endpoint |-> 0,
     url |-> <<>>, hdr |-> [kind |-> "absent", value |-> NoCookie],
     calls |-> <<>>, ret |-> NoCookie, id |-> Undefined, amount |-> 0,
     body |-> NoBody, trimmed |-> <<>>]

(***************************************************************************)
(* init (src/mdsm.js:37-54)                                                 *)
(***************************************************************************)
\* The endpoints with their URLs trimmed (src/mdsm.js:50-53).
TrimEndpoints(list) ==
    [i \in 1..Len(list) |-> [list[i] EXCEPT !.url = trimURL(list[i].url)]]

MdsmInit(initMode, config) ==
    /\ mode' = initMode
    /\ endpoints' = TrimEndpoints(config)
    /\ last' = Quiet("init", "ok", 0)
    /\ UNCHANGED <<heap, sessions, timers, now, nclients>>

(***************************************************************************)
(* Timers.                                                                  *)
(***************************************************************************)
\* setTimeout(callback, delay): Node runs the callback no earlier than
\* `delay` ms from now, and uses 1 ms for a delay that is NaN, undefined or
\* below 1 (src/mdsm.js:299-302, 309-312).
TimerDue(delay) == now + (IF IsNum(delay) /\ delay >= 1 THEN delay ELSE 1)

(***************************************************************************)
(* createSession (src/mdsm.js:252-316)                                      *)
(***************************************************************************)
\* The newSessionInfo objects tried for the n-th session: with and without
\* a sessionID, with a timeToLive and session data, or with neither.
\* sessionID Undefined stands for a null or missing sessionID, timeToLive NaN
\* for a missing timeToLive, sessionData Undefined for missing sessionData.
TimeToLives == {0, 1}

SessionInfos(n) ==
    { [sessionID |-> sid, timeToLive |-> ttl, sessionData |-> <<"sessionData", n>>] :
        sid \in {Undefined, GivenID}, ttl \in TimeToLives }
    \cup { [sessionID |-> Undefined, timeToLive |-> NaN, sessionData |-> Undefined] }

\* The Session constructor (src/Classes/Session.js:5-11).
NewSession(info) ==
    [sessionID |-> info.sessionID, expiryDate |-> info.expiryDate,
     clientList |-> <<>>, validEndpoints |-> info.validEndpoints,
     sessionData |-> info.sessionData]

CreateSession(info) ==
    /\ Len(heap) < MaxSessions
    /\ LET obj == Len(heap) + 1
           sid == IF info.sessionID = Undefined
                  THEN RandomSessionID(obj) ELSE info.sessionID
           \* src/mdsm.js:259-261 tests newSessionInfo itself, which is an
           \* object here, so a missing timeToLive stays missing
           ttl == info.timeToLive
           data == IF info.sessionData = Undefined
                   THEN Null ELSE info.sessionData
           newSesh == NewSession([sessionID |-> sid,
                                  expiryDate |-> Plus(now, ttl),
                                  sessionData |-> data,
                                  validEndpoints |-> endpoints])
       IN  /\ heap' = Append(heap, newSesh)
           /\ sessions' = Append(sessions, obj)
           /\ timers' = timers \cup {[session |-> obj, due |-> TimerDue(ttl)]}
           /\ last' = [Quiet("createSession", "ok", obj)
                         EXCEPT !.id = info.sessionID, !.amount = info.timeToLive]
    /\ UNCHANGED <<mode, endpoints, now, nclients>>

(***************************************************************************)
(* Session.extendSessionLife, Session.attemptSelfDestruct                   *)
(* (src/Classes/Session.js:63-81)                                           *)
(***************************************************************************)
extendSessionLife(session, additionalLifeMs) ==
    [session EXCEPT !.expiryDate = Plus(session.expiryDate, additionalLifeMs)]

\* attemptSelfDestruct without the check of the expiry date.
attemptSelfDestructUnchecked(session) == TRUE

\* TRUE iff the expiry date is not in the future.  `delete this` has no
\* effect on the object.
attemptSelfDestruct(session) ==
    LET true_ttl == Minus(session.expiryDate, now)
    IN  LessEq(true_ttl, 0)

(***************************************************************************)
(* expireSession, the timer callback (src/mdsm.js:285-304)                  *)
(***************************************************************************)
ExpireSession(t) ==
    /\ t \in timers
    /\ t.due <= now
    /\ LET session == heap[t.session]
           wasDestroyed == attemptSelfDestruct(session)
       IN  IF wasDestroyed
           THEN /\ sessions' = Splice1(sessions, IndexOf(sessions, t.session))
                /\ timers' = timers \ {t}
                /\ last' = Quiet("expireSession", "destroyed", t.session)
           ELSE /\ sessions' = sessions
                /\ timers' = (timers \ {t}) \cup
                       {[session |-> t.session,
                         due |-> TimerDue(Minus(session.expiryDate, now))]}
                /\ last' = Quiet("expireSession", "rescheduled", t.session)
    /\ UNCHANGED <<mode, endpoints, heap, now, nclients>>

(***************************************************************************)
(* renewSession (src/mdsm.js:319-327)                                       *)
(***************************************************************************)
\* The amounts of time tried.
RenewAmounts == {1, -1}

\* The expiry dates the model follows: a renewal that leaves this range is
\* not taken.
ExpiryInRange(e) == ~IsNum(e) \/ (e >= 0 /\ e <= MaxTime + 1)

\* The session IDs a caller may name: those of the sessions created so far
\* and one that was never used.
KnownIDs == {heap[o].sessionID : o \in 1..Len(heap)} \cup {GivenID, UnknownID}

\* renewSession that also schedules an expiry check for the new expiry date.
RenewSessionRearms(sessionID, extraTimeInMs) ==
    /\ LET i == FirstIndex(SessionsWithID(sessionID))
       IN  IF i = 0
           THEN /\ heap' = heap
                /\ timers' = timers
                /\ last' = [Quiet("renewSession", "TypeError", 0)
                              EXCEPT !.id = sessionID, !.amount = extraTimeInMs]
           ELSE /\ ExpiryInRange(Plus(heap[sessions[i]].expiryDate, extraTimeInMs))
                /\ heap' = [heap EXCEPT ![sessions[i]] =
                               extendSessionLife(@, extraTimeInMs)]
                /\ timers' = timers \cup
                       {[session |-> sessions[i],
                         due |-> TimerDue(Minus(Plus(heap[sessions[i]].expiryDate,
                                                     extraTimeInMs), now))]}
                /\ last' = [Quiet("renewSession", "ok", sessions[i])
                              EXCEPT !.id = sessionID, !.amount = extraTimeInMs]
    /\ UNCHANGED <<mode, endpoints, sessions, now, nclients>>

RenewSession(sessionID, extraTimeInMs) ==
    /\ LET i == FirstIndex(SessionsWithID(sessionID))
       IN  IF i = 0
           THEN \* session is undefined: calling a method of it throws
                /\ heap' = heap
                /\ last' = [Quiet("renewSession", "TypeError", 0)
                              EXCEPT !.id = sessionID, !.amount = extraTimeInMs]
           ELSE /\ ExpiryInRange(Plus(heap[sessions[i]].expiryDate, extraTimeInMs))
                /\ heap' = [heap EXCEPT ![sessions[i]] =
                               extendSessionLife(@, extraTimeInMs)]
                /\ last' = [Quiet("renewSession", "ok", sessions[i])
                              EXCEPT !.id = sessionID, !.amount = extraTimeInMs]
    /\ UNCHANGED <<mode, endpoints, sessions, timers, now, nclients>>

(***************************************************************************)
(* addClient (src/mdsm.js:332-363) and Session.addClient                    *)
(* (src/Classes/Session.js:14-29)                                           *)
(***************************************************************************)
\* The Client constructor of Classes/Client.js.
NewClient(info) ==
    [clientID |-> info.clientID, clientClass |-> info.clientClass,
     clientData |-> info.clientData]

\* Session.addClient: the session with the new client, and the cookie text.
SessionAddClient(session, newClientData) ==
    LET newClient == NewClient([clientID |-> RandomClientID(nclients + 1),
                                clientClass |-> newClientData.clientClass,
                                clientData |-> newClientData.clientData])
    IN  [session |-> [session EXCEPT !.clientList = Append(@, newClient)],
         cookie |-> Stringify(session.sessionID, newClient.clientID)]

\* The `session` arguments tried: the handle of any session ever created, a
\* session ID, or null.
SessionArgs ==
    {[type |-> "object", ref |-> o, id |-> Undefined] : o \in 0..Len(heap)}
    \cup {[type |-> "string", ref |-> 0, id |-> sid] : sid \in KnownIDs}

\* The session the argument resolves to: an object number, 0 for null, or -1
\* when a session ID matches no session (src/mdsm.js:341-353).  typeof null
\* is 'object', so null is used as it is.
ResolveSession(arg) ==
    IF arg.type # "object"
    THEN LET i == FirstIndex(SessionsWithID(arg.id))
         IN  IF i = 0 THEN -1 ELSE sessions[i]
    ELSE arg.ref

AddClient(arg, clientClass) ==
    /\ LET session == ResolveSession(arg)
           clientData == <<"clientData", nclients + 1>>
       IN  IF session = -1
           THEN /\ last' = Quiet("addClient", "null", 0)
                /\ UNCHANGED <<heap, nclients>>
           ELSE IF session = 0
           THEN \* null.addClient(...) throws
                /\ last' = Quiet("addClient", "TypeError", 0)
                /\ UNCHANGED <<heap, nclients>>
           ELSE /\ nclients < MaxClients
                /\ LET r == SessionAddClient(heap[session],
                               [clientClass |-> clientClass,
                                clientData |-> clientData])
                   IN  /\ heap' = [heap EXCEPT ![session] = r.session]
                       /\ last' = [Quiet("addClient", "cookie", session)
                                     EXCEPT !.ret = encrypt(r.cookie),
                                            !.client = nclients + 1]
                /\ nclients' = nclients + 1
    /\ UNCHANGED <<mode, endpoints, sessions, timers, now>>

(***************************************************************************)
(* Session.removeClient (src/Classes/Session.js:32-41)                      *)
(***************************************************************************)
\* The client IDs a caller may name: those created so far and the next one.
KnownClientIDs == {RandomClientID(n) : n \in 1..(nclients + 1)}

\* The body names `clientList`, which is no variable in scope: with a match
\* the splice throws a ReferenceError before anything is removed.
RemoveClient(obj, clientID) ==
    /\ obj \in 1..Len(heap)
    /\ LET matchingClients ==
               SelectSeq(heap[obj].clientList, LAMBDA c : c.clientID = clientID)
       IN  IF Len(matchingClients) > 0
           THEN last' = [Quiet("removeClient", "ReferenceError", obj)
                           EXCEPT !.id = clientID]
           ELSE last' = [Quiet("removeClient", "ok", obj)
                           EXCEPT !.id = clientID]
    /\ UNCHANGED <<mode, endpoints, heap, sessions, timers, now, nclients>>

(***************************************************************************)
(* Requests (src/mdsm.js:104-249, src/Classes/Session.js:44-58)             *)
(***************************************************************************)
\* isValidEndpoint of src/mdsm.js:184-192: trims the URL it is given again.
isValidEndpoint(url) ==
    \E i \in 1..Len(endpoints) : endpoints[i].url = trimURL(url)

\* The Cookie header of a request: absent, "mdsm=" with an empty value, a
\* value with a malformed %-escape, or "mdsm=<value>".
Header(kind, value) == [kind |-> kind, value |-> value]

\* getCookieListFromReq of src/mdsm.js:195-204.  decodeURI throws a URIError
\* on a malformed escape; an empty value is the empty string.
getCookieListFromReq(hdr) ==
    [threw |-> hdr.kind = "malformed",
     has |-> hdr.kind = "mdsm",       \* cookieList['mdsm'] is truthy
     mdsm |-> hdr.value]

\* The result of findSession when it returns null.
NoMatch == [threw |-> FALSE, session |-> 0, mdsmCookie |-> TextGarbage]

\* The try block of findSession (src/mdsm.js:211-237).
FindSessionTry(sessionCookie) ==
    LET unencrypted == decrypt(sessionCookie)
        sessionDataObject == JSONParse(unencrypted.value)
        sid == GetSessionID(sessionDataObject.value)
        i == FirstIndex(SessionsWithID(sid.value))
    IN  IF unencrypted.threw \/ sessionDataObject.threw
        THEN [NoMatch EXCEPT !.threw = TRUE]
        ELSE IF Len(sessions) > 0 /\ sid.threw   \* thrown in the filter callback
        THEN [NoMatch EXCEPT !.threw = TRUE]
        ELSE IF Len(sessions) > 0 /\ i > 0
        THEN [threw |-> FALSE, session |-> sessions[i],
              mdsmCookie |-> unencrypted.value]
        ELSE NoMatch

\* findSession without its catch block: the errors reach the caller.
findSessionUncaught(sessionCookie) == FindSessionTry(sessionCookie)

\* findSession of src/mdsm.js:210-249: the catch block turns every error of
\* the try block into null.
findSession(sessionCookie) ==
    LET r == FindSessionTry(sessionCookie)
    IN  IF r.threw THEN NoMatch ELSE r

\* Session.processRequest without the test of the client's class.
SessionProcessRequestUnguarded(obj, url, mdsmCookie) ==
    LET session == heap[obj]
        cid == GetClientID(JSONParse(mdsmCookie).value).value
        client == FirstIndex({ k \in 1..Len(session.clientList) :
                                 session.clientList[k].clientID = cid })
        endpoint == FirstIndex({ e \in 1..Len(session.validEndpoints) :
                        session.validEndpoints[e].url = SessionTrimURL(url) })
    IN  IF endpoint = 0 \/ client = 0
        THEN [out |-> "TypeError", session |-> obj, client |-> client,
              endpoint |-> endpoint, calls |-> <<>>, body |-> NoBody]
        ELSE [out |-> "responded", session |-> obj, client |-> client,
              endpoint |-> endpoint,
              body |-> [written |-> TRUE, sessionID |-> session.sessionID,
                        mdsmCookie |-> mdsmCookie],
              calls |->
                << [handler |-> session.validEndpoints[endpoint].handler,
                    sessionData |-> session.sessionData,
                    clientData |-> session.clientList[client].clientData,
                    mdsmCookie |-> mdsmCookie] >>]

\* Session.processRequest that takes the first client of the session instead
\* of the client the cookie names.
SessionProcessRequestFirstClient(obj, url, mdsmCookie) ==
    LET session == heap[obj]
        client == IF Len(session.clientList) > 0 THEN 1 ELSE 0
        endpoint == FirstIndex({ e \in 1..Len(session.validEndpoints) :
                        session.validEndpoints[e].url = SessionTrimURL(url) })
    IN  IF endpoint = 0 \/ client = 0
        THEN [out |-> "TypeError", session |-> obj, client |-> client,
              endpoint |-> endpoint, calls |-> <<>>, body |-> NoBody]
        ELSE [out |-> "responded", session |-> obj, client |-> client,
              endpoint |-> endpoint,
              body |-> [written |-> TRUE, sessionID |-> session.sessionID,
                        mdsmCookie |-> mdsmCookie],
              calls |->
                IF session.clientList[client].clientClass \in
                       session.validEndpoints[endpoint].allowedClassTypes
                THEN << [handler |-> session.validEndpoints[endpoint].handler,
                         sessionData |-> session.sessionData,
                         clientData |-> session.clientList[client].clientData,
                         mdsmCookie |-> mdsmCookie] >>
                ELSE <<>>]

\* Session.processRequest of src/Classes/Session.js:44-58 on session object
\* obj: the client and the endpoint it resolves, the handler calls it makes
\* and how it ends.
SessionProcessRequest(obj, url, mdsmCookie) ==
    LET session == heap[obj]
        cid == GetClientID(JSONParse(mdsmCookie).value).value
        client == FirstIndex({ k \in 1..Len(session.clientList) :
                                 session.clientList[k].clientID = cid })
        endpoint == FirstIndex({ e \in 1..Len(session.validEndpoints) :
                        session.validEndpoints[e].url = SessionTrimURL(url) })
    IN  IF endpoint = 0 \/ client = 0
        THEN \* a property of undefined is read (line 53)
             [out |-> "TypeError", session |-> obj, client |-> client,
              endpoint |-> endpoint, calls |-> <<>>, body |-> NoBody]
        ELSE [out |-> "responded", session |-> obj, client |-> client,
              endpoint |-> endpoint,
              \* res.end of line 57
              body |-> [written |-> TRUE, sessionID |-> session.sessionID,
                        mdsmCookie |-> mdsmCookie],
              calls |->
                IF session.clientList[client].clientClass \in
                       session.validEndpoints[endpoint].allowedClassTypes
                THEN << [handler |-> session.validEndpoints[endpoint].handler,
                         sessionData |-> session.sessionData,
                         clientData |-> session.clientList[client].clientData,
                         mdsmCookie |-> mdsmCookie] >>
                ELSE <<>>]

\* next(error) of the router: with a callback the caller gets the error code;
\* the HTTP server of Port mode passes no callback, and the call throws.
CallNext(code, hasNext) ==
    [out |-> IF hasNext THEN code ELSE "TypeError", session |-> 0,
     client |-> 0, endpoint |-> 0, calls |-> <<>>, body |-> NoBody]

\* processRequest of src/mdsm.js:119-181.
processRequest(url, hdr, hasNext) ==
    LET reqUrl == trimURL(url)
        cookieList == getCookieListFromReq(hdr)
        match == findSession(cookieList.mdsm)
    IN  IF ~isValidEndpoint(reqUrl) THEN CallNext("error3", hasNext)
        ELSE IF cookieList.threw
        THEN [out |-> "URIError", session |-> 0, client |-> 0,
              endpoint |-> 0, calls |-> <<>>, body |-> NoBody]
        ELSE IF cookieList.has
        THEN IF match.threw       \* an error of findSession would propagate
             THEN [out |-> "Error", session |-> 0, client |-> 0,
                   endpoint |-> 0, calls |-> <<>>, body |-> NoBody]
             ELSE IF match.session # 0
             THEN SessionProcessRequest(match.session, url, match.mdsmCookie)
             ELSE CallNext("error1", hasNext)
        ELSE IF mode = "Port"
        THEN \* res.end("Not an MDSM request")
             [out |-> "http400", session |-> 0, client |-> 0,
              endpoint |-> 0, calls |-> <<>>,
              body |-> [NoBody EXCEPT !.written = TRUE]]
        ELSE CallNext("error0", hasNext)

\* processRequestAsMiddleware of src/mdsm.js:104-115: the public
\* processRequest, called with the embedder's callback.
processRequestAsMiddleware(url, hdr) ==
    IF mode # "Middleware"
    THEN CallNext("error2", TRUE)
    ELSE processRequest(url, hdr, TRUE)

\* requestListener of src/mdsm.js:58-60: the HTTP server calls it with a
\* request and a response only.
requestListener(url, hdr) == processRequest(url, hdr, FALSE)

\* The cookies addClient has returned so far.
IssuedCookies ==
    { encrypt(Stringify(heap[o].sessionID, heap[o].clientList[k].clientID)) :
        <<o, k>> \in { p \in (1..Len(heap)) \X (1..MaxClients + 1) :
                          p[2] <= Len(heap[p[1]].clientList) } }

\* Cookie values that this process never issued: decryptable texts that are
\* not JSON, JSON null, an object without IDs; and a cookie of another
\* instance, which does not decrypt.
ForgedCookies ==
    { Ciphertext(Secret, TextGarbage, TRUE),
      Ciphertext(Secret, TextNull, TRUE),
      Ciphertext(Secret, TextEmptyObject, TRUE),
      Ciphertext(OtherSecret, Stringify(RandomSessionID(1), RandomClientID(1)), TRUE) }

RequestHeaders ==
    { Header("absent", NoCookie), Header("empty", NoCookie),
      Header("malformed", NoCookie) }
    \cup { Header("mdsm", c) : c \in IssuedCookies \cup ForgedCookies }

Record(op, url, hdr, r) ==
    [op |-> op, out |-> r.out, obj |-> r.session, client |-> r.client,
     endpoint |-> r.endpoint, url |-> url, hdr |-> hdr, calls |-> r.calls,
     ret |-> NoCookie, id |-> Undefined, amount |-> 0, body |-> r.body,
     trimmed |-> <<>>]

\* A request routed by the embedder through the public processRequest.
MiddlewareRequest(url, hdr) ==
    /\ last' = Record("processRequest", url, hdr, processRequestAsMiddleware(url, hdr))
    /\ UNCHANGED <<mode, endpoints, heap, sessions, timers, now, nclients>>

\* A request that arrives at the HTTP server that init() opens in Port mode
\* (listen, src/mdsm.js:64-99).
ListenerRequest(url, hdr) ==
    /\ mode = "Port"
    /\ last' = Record("requestListener", url, hdr, requestListener(url, hdr))
    /\ UNCHANGED <<mode, endpoints, heap, sessions, timers, now, nclients>>

(***************************************************************************)
(* The clock.                                                               *)
(***************************************************************************)
Tick ==
    /\ now < MaxTime
    /\ now' = now + 1
    /\ last' = Quiet("tick", "ok", 0)
    /\ UNCHANGED <<mode, endpoints, heap, sessions, timers, nclients>>

(***************************************************************************)
(* Specifications.                                                          *)
(*                                                                          *)
(* Spec follows the life of sessions in a module that src/test.js:15-35     *)
(* has configured: creation, clients, renewal, the clock, the expiry        *)
(* timers, and requests that carry an issued cookie to a registered URL.    *)
(*                                                                          *)
(* SpecRoute follows the router from the construction of the module on:     *)
(* init (before or after sessions exist), sessions that expire at once,     *)
(* clients of both classes, and requests with every URL and every Cookie    *)
(* header of RequestURLs and RequestHeaders.                                *)
(***************************************************************************)
\* The module as constructed (src/mdsm.js:19-32).
InitModule ==
    /\ mode = "null"
    /\ endpoints = <<>>
    /\ heap = <<>>
    /\ sessions = <<>>
    /\ timers = {}
    /\ now = 0
    /\ nclients = 0
    /\ last = Quiet("start", "ok", 0)

\* The module after mdsm.init() of src/test.js:15-35.
Init ==
    /\ mode = "Middleware"
    /\ endpoints = TrimEndpoints(ConfigTest)
    /\ heap = <<>>
    /\ sessions = <<>>
    /\ timers = {}
    /\ now = 0
    /\ nclients = 0
    /\ last = Quiet("init", "ok", 0)

\* Requests of a client that holds an issued cookie.
ReturningHeaders == { Header("mdsm", c) : c \in IssuedCookies }

Next ==
    \/ \E info \in SessionInfos(Len(heap) + 1) : CreateSession(info)
    \/ \E sid \in KnownIDs, extra \in RenewAmounts : RenewSession(sid, extra)
    \/ \E arg \in SessionArgs : AddClient(arg, "class_A")
    \/ \E hdr \in ReturningHeaders : MiddlewareRequest(<<"/", "a", "/">>, hdr)
    \/ \E t \in timers : ExpireSession(t)
    \/ Tick

Spec == Init /\ [][Next]_vars

\* Spec without renewSession: the life of sessions that are never renewed.
NextNoRenew ==
    \/ \E info \in SessionInfos(Len(heap) + 1) : CreateSession(info)
    \/ \E arg \in SessionArgs : AddClient(arg, "class_A")
    \/ \E hdr \in ReturningHeaders : MiddlewareRequest(<<"/", "a", "/">>, hdr)
    \/ \E t \in timers : ExpireSession(t)
    \/ Tick

SpecNoRenew == Init /\ [][NextNoRenew]_vars

\* The sessions of SpecRoute expire as soon as they are created.
RouteInfos(n) == { info \in SessionInfos(n) : info.timeToLive = 0 }

NextRoute ==
    \/ MdsmInit("Middleware", ConfigTest)
    \/ \E info \in RouteInfos(Len(heap) + 1) : CreateSession(info)
    \/ \E arg \in SessionArgs, c \in ClientClasses : AddClient(arg, c)
    \/ \E url \in RequestURLs, hdr \in RequestHeaders : MiddlewareRequest(url, hdr)
    \/ \E t \in timers : ExpireSession(t)
    \/ (now < MaxRouteTime /\ Tick)

SpecRoute == InitModule /\ [][NextRoute]_vars

\* The clients of sessions: they are added, removed and used in requests.
NextClients ==
    \/ \E info \in RouteInfos(Len(heap) + 1) : CreateSession(info)
    \/ \E arg \in SessionArgs : AddClient(arg, "class_A")
    \/ \E o \in 1..Len(heap), cid \in KnownClientIDs : RemoveClient(o, cid)
    \/ \E hdr \in ReturningHeaders : MiddlewareRequest(<<"/", "a", "/">>, hdr)
    \/ \E t \in timers : ExpireSession(t)
    \/ (now < MaxRouteTime /\ Tick)

SpecClients == Init /\ [][NextClients]_vars

\* The URLs handed to trimURL: every string of at most MaxURLLen characters
\* over "/" and two other characters.
URLAlphabet == {"/", "a", "b"}
URLs == UNION { [1..n -> URLAlphabet] : n \in 0..MaxURLLen }

\* A call of trimURL of src/mdsm.js on the URL at hand.
TrimURLCall ==
    /\ last.op = "start"
    /\ last' = [last EXCEPT !.op = "trimURL", !.trimmed = trimURL(last.url)]
    /\ UNCHANGED <<mode, endpoints, heap, sessions, timers, now, nclients>>

\* A call of Session.trimURL on the URL at hand.
SessionTrimURLCall ==
    /\ last.op = "start"
    /\ last' = [last EXCEPT !.op = "Session.trimURL",
                            !.trimmed = SessionTrimURL(last.url)]
    /\ UNCHANGED <<mode, endpoints, heap, sessions, timers, now, nclients>>

InitTrim ==
    /\ mode = "null"
    /\ endpoints = <<>>
    /\ heap = <<>>
    /\ sessions = <<>>
    /\ timers = {}
    /\ now = 0
    /\ nclients = 0
    /\ \E u \in URLs : last = [Quiet("start", "ok", 0) EXCEPT !.url = u]

NextTrim == TrimURLCall \/ SessionTrimURLCall

SpecTrim == InitTrim /\ [][NextTrim]_vars

\* Port mode: init({mode: 'Port', ...}) opens an HTTP server, which hands
\* every request to requestListener with a request and a response only.
NextPort ==
    \/ MdsmInit("Port", ConfigTest)
    \/ \E info \in RouteInfos(Len(heap) + 1) : CreateSession(info)
    \/ \E arg \in SessionArgs : AddClient(arg, "class_A")
    \/ \E url \in RequestURLs, hdr \in RequestHeaders : ListenerRequest(url, hdr)
    \/ \E t \in timers : ExpireSession(t)
    \/ (now < MaxRouteTime /\ Tick)

SpecPort == InitModule /\ [][NextPort]_vars

\* Sessions with a finite life: the clock advances and every timer fires.
\* The clock of the model stops at MaxTime, so sessions are created and
\* renewed here only with expiry dates and expiry checks up to MaxTime: each
\* session is renewed a bounded number of times past any given date.
LiveInfos(n) ==
    { info \in SessionInfos(n) :
        IsNum(info.timeToLive) /\ TimerDue(info.timeToLive) <= MaxTime }

NextLive ==
    \/ \E info \in LiveInfos(Len(heap) + 1) : CreateSession(info)
    \/ \E sid \in KnownIDs, extra \in RenewAmounts :
          /\ RenewSession(sid, extra)
          /\ \A o \in 1..Len(heap) : heap'[o].expiryDate <= MaxTime
    \/ \E arg \in SessionArgs : AddClient(arg, "class_A")
    \/ \E t \in timers : ExpireSession(t)
    \/ Tick

\* Time passes, and Node runs the callback of every timer that is due.
Fairness ==
    /\ WF_vars(Tick)
    /\ \A o \in 1..MaxSessions :
          WF_vars(\E t \in timers : t.session = o /\ ExpireSession(t))

SpecLive == Init /\ [][NextLive]_vars /\ Fairness

(***************************************************************************)
(* Vocabulary of the properties.                                            *)
(***************************************************************************)
\* The objects in the sessions array.
LiveSessions == {sessions[i] : i \in 1..Len(sessions)}

\* The last step was a request through the public processRequest.
IsRequest == last.op = "processRequest"

\* The cookies addClient has returned for session object o.
CookiesOf(o) ==
    { encrypt(Stringify(heap[o].sessionID, heap[o].clientList[k].clientID)) :
        k \in 1..Len(heap[o].clientList) }

\* The last request carried a cookie that addClient returned for session o.
CarriedCookieOf(o) ==
    /\ IsRequest
    /\ last.hdr.kind = "mdsm"
    /\ last.hdr.value \in CookiesOf(o)

\* Session o has a pending expiry check.
HasTimer(o) == \E t \in timers : t.session = o

(***************************************************************************)
(* C2.  A session whose expiryDate is at or before the current time is     *)
(* never used to authorize a request: a request that carries a cookie of    *)
(* such a session gets no session from findSession, and no handler is       *)
(* invoked for it.                                                          *)
(***************************************************************************)
ExpiredSessionNeverAuthorizes ==
    \A o \in 1..Len(heap) :
        (CarriedCookieOf(o) /\ LessEq(heap[o].expiryDate, now))
            => (last.obj = 0 /\ last.calls = <<>>)

(***************************************************************************)
(* C3.  When the expiry check of a session fires before the session's      *)
(* expiryDate (which a renewal by a positive amount before the check        *)
(* brings about), the session is not destroyed: it stays in the collection  *)
(* and findSession still resolves its ID to it, and a new check is          *)
(* scheduled for the new expiryDate.  A session leaves the collection only  *)
(* in a check for that session that fires at or after its expiryDate.       *)
(***************************************************************************)
\* findSession resolves the ID of session o to o.
Resolves(o) ==
    findSession(encrypt(Stringify(heap[o].sessionID, RandomClientID(1)))).session = o

RenewalPostponesExpiry ==
    [][ \A o \in 1..Len(heap) :
          /\ ( /\ last'.op = "expireSession" /\ last'.obj = o
               /\ IsNum(heap[o].expiryDate) /\ now < heap[o].expiryDate )
             => ( /\ o \in LiveSessions'
                  /\ Resolves(o)'
                  /\ [session |-> o, due |-> heap[o].expiryDate] \in timers' )
          /\ ( o \in LiveSessions /\ o \notin LiveSessions' )
             => ( /\ last'.op = "expireSession" /\ last'.obj = o
                  /\ LessEq(heap[o].expiryDate, now) )
      ]_vars

\* A renewed session has outlived a check: the check found the expiry date in
\* the future and scheduled the next one.
RenewedSessionOutlivesCheck ==
    /\ last.op = "expireSession"
    /\ last.out = "rescheduled"
    /\ IsNum(heap[last.obj].expiryDate)
    /\ last.obj \in LiveSessions
    /\ now < heap[last.obj].expiryDate

(***************************************************************************)
(* C4.  A session created with a timeToLive t >= 0 and never renewed: once  *)
(* the expiry check scheduled at its creation has fired, the session is     *)
(* absent from the collection and findSession returns none for every cookie *)
(* issued for it.  (Checked where renewSession is never called: there the   *)
(* first check of such a session finds it expired, so the check has fired   *)
(* exactly when the session has no pending timer.)                          *)
(***************************************************************************)
UnrenewedSessionGoneAfterCheck ==
    \A o \in 1..Len(heap) :
        (IsNum(heap[o].expiryDate) /\ ~HasTimer(o))
            => /\ o \notin LiveSessions
               /\ \A c \in CookiesOf(o) : findSession(c).session = 0

(***************************************************************************)
(* C5.  A created session is returned by a lookup with one of its cookies  *)
(* if and only if it has not been destroyed.                                *)
(***************************************************************************)
VisibleIffNotDestroyed ==
    \A o \in 1..Len(heap) :
        CarriedCookieOf(o) => ((last.obj = o) <=> (o \in LiveSessions))

(***************************************************************************)
(* C6.  For every live session S and every cookie addClient returned for   *)
(* S, findSession returns the session object S together with the payload    *)
(* {sessionID of S, clientID of the client}.                                *)
(***************************************************************************)
CookieResolvesToItsSession ==
    \A o \in LiveSessions :
        \A k \in 1..Len(heap[o].clientList) :
            LET payload == Stringify(heap[o].sessionID,
                                     heap[o].clientList[k].clientID)
                match == findSession(encrypt(payload))
            IN  match.session = o /\ match.mdsmCookie = payload

(***************************************************************************)
(* C7.  No two sessions in the collection have the same sessionID.          *)
(***************************************************************************)
UniqueSessionIDs ==
    \A i, j \in 1..Len(sessions) :
        i # j => heap[sessions[i]].sessionID # heap[sessions[j]].sessionID

(***************************************************************************)
(* Vocabulary of the properties of the router.                              *)
(***************************************************************************)
\* The clients of session object o that the cookie text names.
NamedClients(o, text) ==
    { k \in 1..Len(heap[o].clientList) :
        heap[o].clientList[k].clientID = text.clientID }

\* The endpoints of session object o's registry that the URL names.
NamedEndpoints(o, url) ==
    { e \in 1..Len(heap[o].validEndpoints) :
        heap[o].validEndpoints[e].url = SessionTrimURL(url) }

\* The session objects, live or destroyed, that hold a client with this ID.
Owners(clientID) ==
    { o \in 1..Len(heap) :
        \E k \in 1..Len(heap[o].clientList) :
            heap[o].clientList[k].clientID = clientID }

(***************************************************************************)
(* C1.  For every request dispatched to a session: if the class of the     *)
(* client named by the cookie is not in the allowedClassTypes of the        *)
(* endpoint named by the URL, no handler is invoked.                        *)
(***************************************************************************)
UnauthorizedClassNeverHandled ==
    (IsRequest /\ last.obj # 0) =>
        LET text == last.hdr.value.text IN
        ( \A k \in NamedClients(last.obj, text),
             e \in NamedEndpoints(last.obj, last.url) :
               heap[last.obj].clientList[k].clientClass \notin
                   heap[last.obj].validEndpoints[e].allowedClassTypes )
          => last.calls = <<>>

\* A request of a known client reached an endpoint that excludes its class,
\* and was answered without a handler call.
UnauthorizedRequestAnswered ==
    /\ IsRequest /\ last.obj # 0
    /\ last.out = "responded"
    /\ last.calls = <<>>
    /\ \E k \in NamedClients(last.obj, last.hdr.value.text),
          e \in NamedEndpoints(last.obj, last.url) :
            heap[last.obj].clientList[k].clientClass \notin
                heap[last.obj].validEndpoints[e].allowedClassTypes

(***************************************************************************)
(* C8.  findSession never raises to its caller and returns none for every  *)
(* cookie whose decryption fails, whose text is not JSON, whose parsed      *)
(* value has no sessionID (JSON null included) or whose sessionID matches   *)
(* no live session; the router then reports error code 1.                   *)
(***************************************************************************)
\* The cookie names no live session.
NamesNoLiveSession(cookie) ==
    \/ ~cookie.intact
    \/ cookie.key # Secret
    \/ cookie.text.shape # "object"
    \/ \A o \in LiveSessions : heap[o].sessionID # cookie.text.sessionID

FindSessionNeverRaises ==
    /\ \A c \in IssuedCookies \cup ForgedCookies :
          /\ ~findSession(c).threw
          /\ NamesNoLiveSession(c) => findSession(c).session = 0
    /\ ( /\ IsRequest /\ last.hdr.kind = "mdsm"
         /\ mode = "Middleware" /\ isValidEndpoint(trimURL(last.url))
         /\ NamesNoLiveSession(last.hdr.value) )
       => (last.out = "error1" /\ last.obj = 0)

\* A cookie that decrypts to the JSON text null was presented while a session
\* was live (the error is thrown while the sessions are filtered), and the
\* router reported error code 1.
NullCookieRejected ==
    /\ IsRequest /\ last.hdr.kind = "mdsm"
    /\ last.hdr.value = Ciphertext(Secret, TextNull, TRUE)
    /\ sessions # <<>>
    /\ last.out = "error1"

(***************************************************************************)
(* C9.  In Middleware mode every processRequest call has exactly one        *)
(* outcome, by this precedence: error code 3 if the URL matches no          *)
(* registered endpoint; otherwise error code 0 if there is no mdsm cookie;  *)
(* otherwise error code 1 if findSession returns none; otherwise the        *)
(* request is dispatched to the session.  In the three error cases no       *)
(* handler is invoked.  (A Cookie header that carries an mdsm cookie with a *)
(* malformed escape is allowed either of the error codes 0 and 1.)          *)
(***************************************************************************)
RouterPrecedence ==
    (IsRequest /\ mode = "Middleware") =>
        IF ~isValidEndpoint(trimURL(last.url))
        THEN last.out = "error3" /\ last.calls = <<>>
        ELSE IF last.hdr.kind \in {"absent", "empty"}
        THEN last.out = "error0" /\ last.calls = <<>>
        ELSE IF last.hdr.kind = "malformed"
        THEN last.out \in {"error0", "error1"} /\ last.calls = <<>>
        ELSE IF findSession(last.hdr.value).session = 0
        THEN last.out = "error1" /\ last.calls = <<>>
        ELSE last.obj = findSession(last.hdr.value).session

(***************************************************************************)
(* C10.  When a request with a valid cookie reaches a registered endpoint   *)
(* that allows the client's class, the endpoint's handler is invoked        *)
(* exactly once, with the sessionData of the session and the clientData of  *)
(* the client that the cookie names and with the decrypted cookie; and no   *)
(* handler is ever invoked with the data of a session or client that the    *)
(* cookie does not name.                                                    *)
(***************************************************************************)
\* The call that the handler of endpoint e of session o is owed for client k.
HandlerCall(o, k, e, text) ==
    [handler |-> heap[o].validEndpoints[e].handler,
     sessionData |-> heap[o].sessionData,
     clientData |-> heap[o].clientList[k].clientData,
     mdsmCookie |-> text]

HandlerGetsNamedData ==
    (IsRequest /\ last.obj # 0) =>
        LET o == last.obj
            text == last.hdr.value.text
        IN  /\ \A k \in NamedClients(o, text), e \in NamedEndpoints(o, last.url) :
                  heap[o].clientList[k].clientClass \in
                      heap[o].validEndpoints[e].allowedClassTypes
                  => last.calls = << HandlerCall(o, k, e, text) >>
            /\ \A i \in 1..Len(last.calls) :
                  /\ heap[o].sessionID = text.sessionID
                  /\ Owners(text.clientID) = {o}
                  /\ \E k \in NamedClients(o, text) :
                        last.calls[i].clientData = heap[o].clientList[k].clientData
                  /\ last.calls[i].sessionData = heap[o].sessionData
                  /\ last.calls[i].mdsmCookie = text

\* A handler ran for one client of a session that has two, or for a session
\* while another session is live.
HandlerRanAmongOthers ==
    /\ IsRequest /\ last.obj # 0
    /\ Len(last.calls) = 1
    /\ last.client = 2
    /\ Len(heap[last.obj].clientList) = 2

(***************************************************************************)
(* C11.  addClient returns none, without raising and without creating a    *)
(* client, whenever its session argument does not resolve to a session in   *)
(* the collection: every call of addClient that does not return none        *)
(* returns a cookie of a session that is in the collection, and findSession *)
(* resolves that cookie.                                                    *)
(***************************************************************************)
AddClientOnlyToLiveSession ==
    (last.op = "addClient" /\ last.out # "null") =>
        /\ last.out = "cookie"
        /\ last.obj \in LiveSessions
        /\ findSession(last.ret).session # 0

(***************************************************************************)
(* C12.  renewSession(sessionID, extraMs) with a sessionID that matches no  *)
(* session in the collection fails with a session-not-found error and       *)
(* leaves the collection and every session unchanged; with a matching       *)
(* session it succeeds and changes only the expiryDate of one session with  *)
(* that ID, by exactly extraMs.                                             *)
(***************************************************************************)
RenewSessionExact ==
    [][ last'.op = "renewSession" =>
          /\ sessions' = sessions
          /\ IF SessionsWithID(last'.id) = {}
             THEN last'.out = "SessionNotFoundError" /\ heap' = heap
             ELSE /\ last'.out = "ok"
                  /\ last'.obj \in LiveSessions
                  /\ heap[last'.obj].sessionID = last'.id
                  /\ heap' = [heap EXCEPT ![last'.obj].expiryDate =
                                 Plus(@, last'.amount)]
      ]_vars

(***************************************************************************)
(* C13.  A session created without a timeToLive gets the time to live 0:   *)
(* its expiryDate is the time of its creation, and its first expiry check   *)
(* destroys it.  (Checked where renewSession is never called.)              *)
(***************************************************************************)
\* Session object o was created without a timeToLive: of SessionInfos, only
\* the info without a timeToLive has no sessionData either.
CreatedWithoutTimeToLive(o) == heap[o].sessionData = Null

DefaultTimeToLiveIsZero ==
    /\ (last.op = "createSession" /\ last.amount = NaN)
          => heap[last.obj].expiryDate = now
    /\ \A o \in 1..Len(heap) :
          (last.op = "expireSession" /\ last.obj = o
             /\ CreatedWithoutTimeToLive(o))
              => (last.out = "destroyed" /\ o \notin LiveSessions)

(***************************************************************************)
(* C14.  The plaintext of the cookie that a request carries is never        *)
(* written to the response, whatever the outcome of the request.            *)
(***************************************************************************)
PlaintextCookieNeverSent ==
    (IsRequest /\ last.hdr.kind = "mdsm" /\ last.body.written)
        => last.body.mdsmCookie # decrypt(last.hdr.value).value

(***************************************************************************)
(* C15.  When the class of the client that the cookie names is not in the  *)
(* allowedClassTypes of the endpoint that the URL names, the request does   *)
(* not end as a normal response: the caller gets an authorization error.    *)
(***************************************************************************)
UnauthorizedClassReported ==
    (IsRequest /\ last.obj # 0) =>
        LET text == last.hdr.value.text IN
        ( \E k \in NamedClients(last.obj, text),
             e \in NamedEndpoints(last.obj, last.url) :
               heap[last.obj].clientList[k].clientClass \notin
                   heap[last.obj].validEndpoints[e].allowedClassTypes )
          => last.out = "AuthorizationError"

(***************************************************************************)
(* C17.  When the cookie resolves to a live session that holds no client    *)
(* with the cookie's clientID, the request fails with an unknown-client     *)
(* error: no handler is invoked and no exception escapes the request.       *)
(***************************************************************************)
\* The exceptions that a call lets escape to its caller.
Exceptions == {"TypeError", "ReferenceError", "URIError", "Error"}

UnknownClientHandled ==
    (IsRequest /\ last.obj # 0
       /\ NamedClients(last.obj, last.hdr.value.text) = {})
        => (last.calls = <<>> /\ last.out \notin Exceptions)

(***************************************************************************)
(* C18.  When the router accepts a URL and dispatches the request to a     *)
(* session, the session's own endpoint lookup finds an endpoint or the      *)
(* request fails with an unknown-endpoint error: no handler is invoked and  *)
(* no exception escapes, also when the session's registry differs from the  *)
(* router's and when the URL has doubled slashes.                           *)
(***************************************************************************)
UnknownEndpointHandled ==
    (IsRequest /\ last.obj # 0 /\ NamedEndpoints(last.obj, last.url) = {})
        => (last.calls = <<>> /\ last.out \notin Exceptions)

(***************************************************************************)
(* C16.  Session.removeClient(clientID) completes without raising; on a    *)
(* session that holds a client with that ID it removes exactly that client  *)
(* and leaves the other clients as they are, and on a session without such  *)
(* a client it leaves the client list unchanged.                            *)
(***************************************************************************)
RemoveClientRemoves ==
    [][ last'.op = "removeClient" =>
          /\ last'.out = "ok"
          /\ heap' = [heap EXCEPT ![last'.obj].clientList =
                         SelectSeq(@, LAMBDA c : c.clientID # last'.id)]
      ]_vars

(***************************************************************************)
(* C19.  trimURL is idempotent: trimURL(trimURL(u)) = trimURL(u) for every *)
(* URL u, for the trimURL of the router and for that of Session; and        *)
(* trimURL("/a/b/") = trimURL("a/b") = "a/b".                               *)
(***************************************************************************)
TrimURLIdempotent ==
    /\ last.op = "trimURL" => trimURL(last.trimmed) = last.trimmed
    /\ last.op = "Session.trimURL" => SessionTrimURL(last.trimmed) = last.trimmed
    /\ trimURL(<<"/", "a", "/", "b", "/">>) = <<"a", "/", "b">>
    /\ trimURL(<<"a", "/", "b">>) = <<"a", "/", "b">>

(***************************************************************************)
(* C20.  Each session has at most one pending expiry check: a session in   *)
(* the collection has exactly one pending timer, a destroyed session has    *)
(* none, and renewSession neither schedules nor cancels a timer.            *)
(***************************************************************************)
\* The pending timers of session object o.
TimersOf(o) == { t \in timers : t.session = o }

OneTimerPerSession ==
    /\ \A o \in 1..Len(heap) :
          Cardinality(TimersOf(o)) = IF o \in LiveSessions THEN 1 ELSE 0
    /\ \A t \in timers : t.session \in 1..Len(heap)

AtMostOneExpiryCheck ==
    [][ /\ OneTimerPerSession'
        /\ last'.op = "renewSession" => timers' = timers
      ]_vars

\* A session has been renewed to expire after its pending check while another
\* session has been destroyed.
RenewedWhileCheckPending ==
    /\ last.op = "renewSession" /\ last.out = "ok"
    /\ \E t \in TimersOf(last.obj) :
          IsNum(heap[last.obj].expiryDate) /\ t.due < heap[last.obj].expiryDate
    /\ \E o \in 1..Len(heap) : o \notin LiveSessions /\ TimersOf(o) = {}
    /\ OneTimerPerSession

(***************************************************************************)
(* C21.  In Port mode, where the listener calls the router without a       *)
(* callback, a request to an unregistered URL and a request whose mdsm      *)
(* cookie matches no session each end in an error outcome and no exception  *)
(* escapes, just as a request to a registered URL without a cookie is       *)
(* answered with HTTP 400.                                                  *)
(***************************************************************************)
PortErrorsReported ==
    (last.op = "requestListener") =>
        /\ ( \/ ~isValidEndpoint(trimURL(last.url))
             \/ ( /\ last.hdr.kind = "mdsm"
                  /\ findSession(last.hdr.value).session = 0 ) )
              => (last.out \notin Exceptions /\ last.out # "responded")
        /\ ( /\ isValidEndpoint(trimURL(last.url))
             /\ last.hdr.kind \in {"absent", "empty"} )
              => last.out = "http400"

(***************************************************************************)
(* C22.  When the clock advances and every scheduled timer fires, every    *)
(* session created with a finite time to live and renewed finitely often    *)
(* is eventually removed from the collection; it is never inserted again,   *)
(* and from then on none of its cookies resolves.                           *)
(***************************************************************************)
\* Session object o has been created and is no longer in the collection.
Removed(o) == o \in 1..Len(heap) /\ o \notin LiveSessions

ExpiredSessionsGoForGood ==
    /\ \A o \in 1..MaxSessions : (o \in 1..Len(heap)) ~> Removed(o)
    /\ [][ \A o \in 1..Len(heap) : Removed(o) => Removed(o)' ]_vars
    /\ [](\A o \in 1..Len(heap) :
             Removed(o) => \A c \in CookiesOf(o) : findSession(c).session = 0)

====
